---------------------------- MODULE Spec2Model ----------------------------
(***************************************************************************)
(* Model of the SCFA / hepatocyte FBA pipeline:                            *)
(*   src/src/utils.py              read_scfa_inputs (input validator)      *)
(*   src/src/01_prepare_inputs.py  main (writes the canonical dose table)  *)
(*   src/src/02_run_simulation.py  find_rxn, setup_medium,                 *)
(*                                 get_pathway_fluxes, main                *)
(*                                                                         *)
(* Flux magnitudes (bounds, doses, objective values) are integers counted  *)
(* in hundredths of mmol/gDW/hr, so that the source's 0.5 and 0.01 are 50  *)
(* and 1, and 500 is 50000.                                                *)
(***************************************************************************)
EXTENDS Integers, Sequences, FiniteSets, TLC

VARIABLES
    pc,             \* position of the running stage
    cols,           \* columns of the dose table handed to stage 01
    df,             \* rows of the dose table handed to stage 01
    expected,       \* cfg["project"]["conditions"]
    res01,          \* what read_scfa_inputs did in stage 01
    canonical,      \* results/scfa_inputs_canonical.csv
    scfa_df,        \* what read_scfa_inputs did in stage 02 (main, line 168)
    sbml,           \* the network definition file: reaction ids and their bounds
    sim,            \* cfg["host_simulation"]
    model,          \* the cobra model: bounds of every reaction of the network
    model2,         \* an independent copy of the loaded model
    runs,           \* how often setup_medium ran on <<model, model2>>
    once,           \* the bounds of model after setup_medium ran on it once
    atpm,           \* the objective reaction main resolved
    scfa_rxns,      \* the exchange reaction main resolved for each SCFA
    rxn_glc,        \* the glucose exchange main resolved
    rxn_o2,         \* the oxygen exchange main resolved
    baseline_atpm,  \* the baseline objective
    idx,            \* the row of scfa_df the loop of main is at
    contexts,       \* model._contexts: the bounds to put back when the with block ends
    rows,           \* the result rows collected so far
    written,        \* the result files written
    solves          \* the calls of model.optimize() main made, in order

vvars == <<cols, df, expected, res01, canonical, scfa_df>>
mvars == <<sbml, sim, model, model2, runs, once>>
rvars == <<atpm, scfa_rxns, rxn_glc, rxn_o2, baseline_atpm, idx, contexts, rows, written,
          solves>>
vars == <<pc, cols, df, expected, res01, canonical, scfa_df,
          sbml, sim, model, model2, runs, once,
          atpm, scfa_rxns, rxn_glc, rxn_o2, baseline_atpm, idx, contexts, rows, written,
          solves>>

-----------------------------------------------------------------------------
(* Bounds of the model *)

\* largest number of rows of a dose table
MaxRows == 2

\* largest number of reactions of the model's universe missing from a network
MaxAbsent == 2

-----------------------------------------------------------------------------
(* Python values held in the condition column and in project.conditions:   *)
(* a str, or an int as pandas / YAML parse an all-digits cell.  s is the   *)
(* text of the value.                                                      *)

PyStr(s) == [t |-> "str", s |-> s]
PyInt(s) == [t |-> "int", s |-> s]

\* Series.astype(str): every value becomes the str of its text
AsTypeStr(v) == [t |-> "str", s |-> v.s]

\* the texts the model uses, in ascending code point order (Python's order
\* of str, and the numeric order of the ints 1 < 2)
CodepointOrder == <<"1", "2", "High", "Low", "Mid">>

IntTexts == {"1", "2"}

Rank(s) == CHOOSE k \in DOMAIN CodepointOrder : CodepointOrder[k] = s

\* a < b on two Python values of one type
PyLess(a, b) == Rank(a.s) < Rank(b.s)

RECURSIVE SortedList(_)
\* sorted(iterable) of a set of Python values of one type
SortedList(S) ==
    IF S = {} THEN <<>>
    ELSE LET m == CHOOSE x \in S : \A y \in S : ~PyLess(y, x)
         IN  <<m>> \o SortedList(S \ {m})

RECURSIVE InsertSorted(_, _)
InsertSorted(x, s) ==
    IF s = <<>> THEN <<x>>
    ELSE IF PyLess(x, Head(s)) THEN <<x>> \o s
    ELSE <<Head(s)>> \o InsertSorted(x, Tail(s))

RECURSIVE SortedSeq(_)
\* sorted(list): duplicates are kept
SortedSeq(s) ==
    IF s = <<>> THEN <<>>
    ELSE InsertSorted(s[Len(s)], SortedSeq(SubSeq(s, 1, Len(s) - 1)))

Range(s) == {s[k] : k \in DOMAIN s}

-----------------------------------------------------------------------------
(* utils.read_scfa_inputs *)

DoseColumns == <<"acetate_mmol_gDW_hr", "propionate_mmol_gDW_hr", "butyrate_mmol_gDW_hr">>

needed == {"condition"} \cup Range(DoseColumns)

NoTable == <<>>

Accepted(table) ==
    [status |-> "ok", error |-> "", table |-> table,
     missing |-> {}, exp |-> <<>>, got |-> <<>>, column |-> ""]

MissingColumnsError(missing) ==
    [status |-> "ValueError", error |-> "Missing columns", table |-> NoTable,
     missing |-> missing, exp |-> <<>>, got |-> <<>>, column |-> ""]

ConditionsError(exp, got) ==
    [status |-> "ValueError", error |-> "Conditions don't match", table |-> NoTable,
     missing |-> {}, exp |-> exp, got |-> got, column |-> ""]

NegativeError(c) ==
    [status |-> "ValueError", error |-> "Negative values in", table |-> NoTable,
     missing |-> {}, exp |-> <<>>, got |-> <<>>, column |-> c]

NotRun == [status |-> "not run", error |-> "", table |-> NoTable,
           missing |-> {}, exp |-> <<>>, got |-> <<>>, column |-> ""]

\* df["condition"] = df["condition"].astype(str)
CanonCondition(t) == [k \in DOMAIN t |-> [t[k] EXCEPT !.condition = AsTypeStr(@)]]

\* (df[c] < 0).all() in place of .any()
AllNegative(t, c) == \A k \in DOMAIN t : t[k][c] < 0

\* (df[c] < 0).any()
AnyNegative(t, c) == \E k \in DOMAIN t : t[k][c] < 0

Permutations1(n) == {p \in [1..n -> 1..n] : \A a, b \in 1..n : a # b => p[a] # p[b]}

IsSortedByCondition(t) ==
    \A k \in 1..(Len(t) - 1) : ~PyLess(t[k + 1].condition, t[k].condition)

\* df.sort_values("condition").reset_index(drop=True): the default kind,
\* quicksort, is not a stable sort, so rows of equal condition come out in
\* any order; every outcome is a permutation of the rows in ascending order
\* of condition.
SortValues(t) ==
    { s \in { [k \in 1..Len(t) |-> t[p[k]]] : p \in Permutations1(Len(t)) } :
        IsSortedByCondition(s) }

\* the first dose column, in the order of the loop, holding a negative value
FirstNegative(t) ==
    LET k == CHOOSE k \in DOMAIN DoseColumns :
                /\ AnyNegative(t, DoseColumns[k])
                /\ \A j \in 1..(k - 1) : ~AnyNegative(t, DoseColumns[j])
    IN  DoseColumns[k]

\* read_scfa_inputs with the condition check weakened to "no unexpected
\* name" (a table missing an expected name passes)
read_scfa_inputs_subset(columns, t, expected_conditions) ==
    LET missing == needed \ columns
        t1      == CanonCondition(t)
        conds   == {t1[k].condition : k \in DOMAIN t1}
    IN  IF missing # {} THEN {MissingColumnsError(missing)}
        ELSE IF ~(conds \subseteq Range(expected_conditions))
             THEN {ConditionsError(SortedSeq(expected_conditions), SortedList(conds))}
        ELSE IF \E k \in DOMAIN DoseColumns : AnyNegative(t1, DoseColumns[k])
             THEN {NegativeError(FirstNegative(t1))}
        ELSE {Accepted(s) : s \in SortValues(t1)}

\* the outcomes of read_scfa_inputs on a table read from a file
read_scfa_inputs(columns, t, expected_conditions) ==
    LET missing == needed \ columns
        t1      == CanonCondition(t)
        conds   == {t1[k].condition : k \in DOMAIN t1}
    IN  IF missing # {} THEN {MissingColumnsError(missing)}
        ELSE IF conds # Range(expected_conditions)
             THEN {ConditionsError(SortedSeq(expected_conditions), SortedList(conds))}
        ELSE IF \E k \in DOMAIN DoseColumns : AnyNegative(t1, DoseColumns[k])
             THEN {NegativeError(FirstNegative(t1))}
        ELSE {Accepted(s) : s \in SortValues(t1)}

-----------------------------------------------------------------------------
(* CSV files: DataFrame.to_csv(index=False) and pd.read_csv *)

NoFile == [exists |-> FALSE, columns |-> {}, rows |-> <<>>]

\* to_csv: every condition is written as its text
to_csv(columns, t) ==
    [exists |-> TRUE, columns |-> columns,
     rows |-> [k \in DOMAIN t |-> [t[k] EXCEPT !.condition = @.s]]]

\* read_csv: a column whose cells are all integer literals is parsed as
\* integers, any other as str
read_csv(file) ==
    LET allInt == /\ file.rows # <<>>
                  /\ \A k \in DOMAIN file.rows : file.rows[k].condition \in IntTexts
    IN  [k \in DOMAIN file.rows |->
            [file.rows[k] EXCEPT !.condition = IF allInt THEN PyInt(@) ELSE PyStr(@)]]

-----------------------------------------------------------------------------
(* Inputs *)

\* dose triples (acetate, propionate, butyrate) of the rows of dose tables
DoseTriples == { <<0, 0, 0>>, <<200, 0, 100>>, <<-100, 0, 0>>, <<0, -50, -100>> }

Row(c, d) ==
    [condition |-> c, acetate_mmol_gDW_hr |-> d[1],
     propionate_mmol_gDW_hr |-> d[2], butyrate_mmol_gDW_hr |-> d[3]]

\* a condition column as read_csv returns it: all int, or all str
ConditionColumns(n) ==
    [1..n -> {PyStr("High"), PyStr("Low"), PyStr("Mid")}] \cup [1..n -> {PyInt("1")}]

Tables ==
    UNION { { [k \in 1..n |-> Row(cc[k], dd[k])] :
                cc \in ConditionColumns(n), dd \in [1..n -> DoseTriples] } :
            n \in 1..MaxRows }

ColumnChoices ==
    { needed, needed \cup {"notes"}, needed \ {"condition"},
      needed \ {"butyrate_mmol_gDW_hr"} }

ExpectedChoices ==
    { <<PyStr("High"), PyStr("Low")>>, <<PyStr("Low"), PyStr("High")>>,
      <<PyStr("High")>>, <<PyStr("1")>>, <<PyInt("1")>> }

-----------------------------------------------------------------------------
(* 01_prepare_inputs.main *)

Stage01 ==
    /\ pc = "stage01"
    /\ \E r \in read_scfa_inputs(cols, df, expected) :
        /\ res01' = r
        /\ IF r.status = "ok"
           THEN /\ canonical' = to_csv(cols, r.table)
                /\ pc' = "stage02"
           ELSE /\ canonical' = canonical
                /\ pc' = "failed01"
    /\ UNCHANGED <<cols, df, expected, scfa_df>>
    /\ UNCHANGED mvars
    /\ UNCHANGED rvars

\* line 168 with the ValueError of read_scfa_inputs swallowed: main goes on
\* to load the model
ReadInputsLenient ==
    /\ pc = "stage02"
    /\ canonical.exists
    /\ \E r \in read_scfa_inputs(canonical.columns, read_csv(canonical), expected) :
        /\ scfa_df' = r
        /\ pc' = "load"
    /\ UNCHANGED <<cols, df, expected, res01, canonical>>
    /\ UNCHANGED mvars
    /\ UNCHANGED rvars

(* 02_run_simulation.main, line 168 *)
ReadInputs ==
    /\ pc = "stage02"
    /\ canonical.exists
    /\ \E r \in read_scfa_inputs(canonical.columns, read_csv(canonical), expected) :
        /\ scfa_df' = r
        /\ pc' = IF r.status = "ok" THEN "load" ELSE "failed02"
    /\ UNCHANGED <<cols, df, expected, res01, canonical>>
    /\ UNCHANGED mvars
    /\ UNCHANGED rvars


-----------------------------------------------------------------------------
(* Reactions.  An id is the pair <<p, rest>> of the text p up to and       *)
(* including its first underscore-terminated prefix and the rest, so that  *)
(* "EX_glc__D_e" is <<"EX_", "glc__D_e">> and "PYK" is <<"", "PYK">>.       *)

BoundaryPrefixes == {"EX_", "DM_", "sink_", "SK_"}

\* r.id.startswith(("EX_", "DM_", "sink_", "SK_"))
IsBoundary(r) == r[1] \in BoundaryPrefixes

EX(rest) == <<"EX_", rest>>
Inner(rest) == <<"", rest>>

SCFA_RXN_IDS ==
    [acetate    |-> <<EX("ac_e"), EX("ac[u]"), EX("ac(e)")>>,
     propionate |-> <<EX("ppa_e"), EX("propn_e"), EX("ppn_e")>>,
     butyrate   |-> <<EX("but_e"), EX("btn_e")>>]
GLUCOSE_IDS == <<EX("glc__D_e"), EX("glc_D_e"), EX("glc[e]")>>
O2_IDS == <<EX("o2_e"), EX("o2[e]")>>
ATPM_IDS == <<Inner("ATPM"), <<"DM_", "atp_c_">>>>

FREE == <<EX("h2o_e"), EX("h_e")>>

IonIds == <<EX("pi_e"), EX("so4_e"), EX("k_e"), EX("na1_e"),
            EX("ca2_e"), EX("cl_e"), EX("mg2_e"), EX("fe2_e")>>
\* every ion's uptake cap is 10
IONS == [r \in Range(IonIds) |-> 1000]

SecretionIds == <<EX("co2_e"), EX("nh4_e")>>
SECRETION == [r \in Range(SecretionIds) |-> IF r = EX("co2_e") THEN 100000 ELSE 10000]

ESSENTIAL_AA ==
    <<EX("his__L_e"), EX("ile__L_e"), EX("leu__L_e"), EX("lys__L_e"),
      EX("met__L_e"), EX("phe__L_e"), EX("thr__L_e"), EX("trp__L_e"), EX("val__L_e")>>

VITAMINS ==
    <<EX("thm_e"), EX("ribflv_e"), EX("ncam_e"), EX("pnto__R_e"),
      EX("pydxn_e"), EX("fol_e"), EX("cbl1_e"), EX("chol_e"), EX("inost_e")>>

PATHWAYS ==
    <<"PYK", "PDHm", "CSm", "ACONTm", "ICDHxm", "AKGDm", "SUCDi", "FUMm", "MDHm",
      "PCm", "PEPCK", "G6PDH2r", "FBA", "PFK", "ATPS4mi", "NADH2_u10mi", "CYOOm3i">>

\* the cap of internal fluxes (500), the free exchange bound (1000), the
\* ions' secretion cap (100), the ammonium uptake (0.5), the default trace
\* uptake (0.01) and the objective's upper bound (500)
InternalCap == 50000
FreeBound == 100000
IonSecretion == 10000
NH4Uptake == 50
DefaultTrace == 1
ObjectiveUpper == 50000

None == <<>>

\* rid in model.reactions
Has(m, r) == r \in DOMAIN m

RECURSIVE find_rxn(_, _)
\* the first candidate that is a reaction of the model, or None
find_rxn(m, candidates) ==
    IF candidates = <<>> THEN None
    ELSE IF Has(m, Head(candidates)) THEN Head(candidates)
    ELSE find_rxn(m, Tail(candidates))

-----------------------------------------------------------------------------
(* cobra's Reaction setters on a pair <<lower_bound, upper_bound>> *)

\* r.lower_bound = v: an upper bound below v is raised to v
SetLower(b, v) == <<v, IF b[2] < v THEN v ELSE b[2]>>

\* r.upper_bound = v: a lower bound above v is lowered to v
SetUpper(b, v) == <<IF b[1] > v THEN v ELSE b[1], v>>

-----------------------------------------------------------------------------
(* setup_medium, one definition per step *)

\* r.lower_bound += 500 in place of r.lower_bound = -500
CapLowerShifted(b) == IF b[1] < -InternalCap THEN SetLower(b, b[1] + InternalCap) ELSE b

\* if r.lower_bound < -500: r.lower_bound = -500
CapLower(b) == IF b[1] < -InternalCap THEN SetLower(b, -InternalCap) ELSE b

\* if r.upper_bound > 500: r.upper_bound = 500
CapUpper(b) == IF b[2] > InternalCap THEN SetUpper(b, InternalCap) ELSE b

\* cap internal rxns
CapInternal(m) ==
    [r \in DOMAIN m |-> IF ~IsBoundary(r) THEN CapUpper(CapLower(m[r])) ELSE m[r]]

\* only the EX_ reactions closed
CloseExchangesOnly(m) ==
    [r \in DOMAIN m |-> IF r[1] = "EX_" THEN <<0, 0>> ELSE m[r]]

\* close ALL boundary rxns
CloseBoundary(m) ==
    [r \in DOMAIN m |-> IF IsBoundary(r) THEN <<0, 0>> ELSE m[r]]

\* reopen water/protons
ReopenFree(m) ==
    [r \in DOMAIN m |-> IF r \in Range(FREE) THEN <<-FreeBound, FreeBound>> ELSE m[r]]

\* ions
OpenIons(m) ==
    [r \in DOMAIN m |-> IF r \in DOMAIN IONS THEN <<-IONS[r], IonSecretion>> ELSE m[r]]

\* secretion
OpenSecretion(m) ==
    [r \in DOMAIN m |-> IF r \in DOMAIN SECRETION THEN <<0, SECRETION[r]>> ELSE m[r]]

\* also allow small NH4 uptake
AllowNH4Uptake(m) ==
    [r \in DOMAIN m |-> IF r = EX("nh4_e") THEN SetLower(m[r], -NH4Uptake) ELSE m[r]]

\* rxn = find_rxn(model, candidates); if rxn: rxn.bounds = (-limit, 0)
LimitUptake(m, candidates, limit) ==
    LET rxn == find_rxn(m, candidates)
    IN  IF rxn # None THEN [m EXCEPT ![rxn] = <<-limit, 0>>] ELSE m

\* sim.get(key, default)
SimGet(s, key, default) == IF key \in DOMAIN s THEN s[key] ELSE default

\* amino acids, vitamins - trace
OpenTrace(m, ids, trace) ==
    [r \in DOMAIN m |-> IF r \in Range(ids) THEN <<-trace, 0>> ELSE m[r]]

setup_medium(m, s) ==
    LET m1 == CapInternal(m)
        m2 == CloseBoundary(m1)
        m3 == ReopenFree(m2)
        m4 == OpenIons(m3)
        m5 == AllowNH4Uptake(OpenSecretion(m4))
        m6 == LimitUptake(m5, O2_IDS, s.oxygen_uptake)
        m7 == LimitUptake(m6, GLUCOSE_IDS, s.glucose_uptake)
        m8 == OpenTrace(m7, ESSENTIAL_AA, SimGet(s, "amino_acid_uptake", DefaultTrace))
    IN  OpenTrace(m8, VITAMINS, SimGet(s, "vitamin_uptake", DefaultTrace))

-----------------------------------------------------------------------------
(* Networks *)

Curated ==
    Range(FREE) \cup Range(IonIds) \cup Range(SecretionIds) \cup Range(O2_IDS)
    \cup Range(GLUCOSE_IDS) \cup Range(ESSENTIAL_AA) \cup Range(VITAMINS)

ScfaIds ==
    Range(SCFA_RXN_IDS.acetate) \cup Range(SCFA_RXN_IDS.propionate)
    \cup Range(SCFA_RXN_IDS.butyrate)

\* reactions of no list of the source: boundary reactions outside the
\* medium, and internal reactions, two of them with ids that only look like
\* boundary ids ("ex_glc_e", "EXCHg")
Others ==
    { EX("lac__L_e"), <<"DM_", "nadh_c">>, <<"sink_", "gthrd_c">>, <<"SK_", "pre_prot_r">>,
      Inner("HEX1"), <<"ex_", "glc_e">>, <<"EX", "CHg">> }

Universe ==
    Curated \cup ScfaIds \cup Range(ATPM_IDS) \cup {Inner(p) : p \in Range(PATHWAYS)} \cup Others

\* the reactions a network of the model may lack
Droppable ==
    Range(O2_IDS) \cup Range(GLUCOSE_IDS) \cup Range(ATPM_IDS) \cup Range(SecretionIds)
    \cup {EX("ac_e"), EX("but_e"), EX("btn_e"), EX("h2o_e"), EX("pi_e"), EX("his__L_e"),
          EX("lac__L_e"), Inner("PYK")}

Networks == { Universe \ a : a \in { x \in SUBSET Droppable : Cardinality(x) <= MaxAbsent } }

\* the bounds a network definition gives its boundary and its internal reactions
BoundaryStartBounds == { <<-100000, 100000>>, <<0, 100000>> }
InternalStartBounds ==
    { <<-100000, 100000>>, <<0, 100000>>, <<-200000, 200000>>, <<-100000, -60000>> }

SbmlFiles ==
    { [r \in n |-> IF IsBoundary(r) THEN bb ELSE bi] :
        n \in Networks, bb \in BoundaryStartBounds, bi \in InternalStartBounds }

SimChoices ==
    { [oxygen_uptake |-> 2000, glucose_uptake |-> 100],
      [oxygen_uptake |-> 1000, glucose_uptake |-> 0,
       amino_acid_uptake |-> 5, vitamin_uptake |-> 2] }

-----------------------------------------------------------------------------
\* main before it ran: nothing resolved, nothing collected, nothing written
InitRun ==
    /\ atpm = None
    /\ scfa_rxns = [name \in DOMAIN SCFA_RXN_IDS |-> None]
    /\ rxn_glc = None
    /\ rxn_o2 = None
    /\ baseline_atpm = 0
    /\ idx = 1
    /\ contexts = <<>>
    /\ rows = <<>>
    /\ written = {}
    /\ solves = <<>>

-----------------------------------------------------------------------------
(* setup_medium on a model and on an independent copy of it *)

SetupModel ==
    /\ pc = "medium"
    /\ runs[1] < 2
    /\ model' = setup_medium(model, sim)
    /\ runs' = <<runs[1] + 1, runs[2]>>
    /\ once' = IF runs[1] = 0 THEN model' ELSE once
    /\ UNCHANGED <<pc, sbml, sim, model2>>
    /\ UNCHANGED vvars
    /\ UNCHANGED rvars

SetupCopy ==
    /\ pc = "medium"
    /\ runs[2] < 1
    /\ model2' = setup_medium(model2, sim)
    /\ runs' = <<runs[1], runs[2] + 1>>
    /\ UNCHANGED <<pc, sbml, sim, model, once>>
    /\ UNCHANGED vvars
    /\ UNCHANGED rvars

InitMedium ==
    /\ pc = "medium"
    /\ cols = needed /\ df = <<>> /\ expected = <<>>
    /\ res01 = NotRun /\ canonical = NoFile /\ scfa_df = NotRun
    /\ sbml \in SbmlFiles
    /\ sim \in SimChoices
    /\ model = sbml
    /\ model2 = sbml
    /\ runs = <<0, 0>>
    /\ once = sbml
    /\ InitRun

NextMedium == SetupModel \/ SetupCopy

SpecMedium == InitMedium /\ [][NextMedium]_vars

-----------------------------------------------------------------------------
(* Floats of the result rows: a number n/d, NaN, or Python's None *)

Num(n) == [k |-> "num", n |-> n, d |-> 1]
NaN == [k |-> "nan", n |-> 0, d |-> 1]
NoValue == [k |-> "None", n |-> 0, d |-> 1]

\* a / b on floats, b # 0
Div(a, b) == [k |-> "num", n |-> a, d |-> b]

-----------------------------------------------------------------------------
(* model.optimize(): the LP solver is outside the repository.  Its answer  *)
(* is a function of the bounds alone; this one stands in for it: the       *)
(* objective is the ATP the open uptakes of glucose and SCFA can yield,    *)
(* capped by the objective's upper bound, and a model with a reaction      *)
(* forced away from zero flux has no solution (objective_value None).      *)

AtpYield(r) ==
    IF r \in Range(GLUCOSE_IDS) THEN 32
    ELSE IF r \in Range(SCFA_RXN_IDS.acetate) THEN 10
    ELSE IF r \in Range(SCFA_RXN_IDS.propionate) THEN 17
    ELSE IF r \in Range(SCFA_RXN_IDS.butyrate) THEN 26
    ELSE 0

Uptake(b) == IF b[1] < 0 THEN -b[1] ELSE 0

RECURSIVE AtpSupply(_, _)
AtpSupply(m, S) ==
    IF S = {} THEN 0
    ELSE LET r == CHOOSE x \in S : TRUE
         IN  AtpYield(r) * Uptake(m[r]) + AtpSupply(m, S \ {r})

Min(a, b) == IF a < b THEN a ELSE b

Feasible(m) == \A r \in DOMAIN m : m[r][1] <= 0 /\ 0 <= m[r][2]

optimize(m, objective) ==
    LET v == Min(m[objective][2], AtpSupply(m, DOMAIN m))
    IN  IF Feasible(m)
        THEN [objective_value |-> Num(v),
              fluxes |-> [r \in DOMAIN m |->
                            IF r = objective THEN v
                            ELSE IF AtpYield(r) > 0 THEN -Uptake(m[r]) ELSE 0]]
        ELSE [objective_value |-> NoValue, fluxes |-> [r \in DOMAIN m |-> 0]]

\* float(sol.objective_value or 0)
ObjectiveOrZero(sol) ==
    IF sol.objective_value = NoValue \/ sol.objective_value.n = 0
    THEN 0 ELSE sol.objective_value.n

\* float(sol.fluxes.get(rid, default))
FluxGet(sol, r, default) ==
    IF r \in DOMAIN sol.fluxes THEN Num(sol.fluxes[r]) ELSE default

-----------------------------------------------------------------------------
(* 02_run_simulation.main *)

\* with model: a bounds setter run inside the block records the bounds it
\* replaces (cobra's resettable); leaving the block, normally or by an
\* exception, puts them back, last first
SetBoundsInContext(mc, r, b) ==
    [m |-> [mc.m EXCEPT ![r] = b], contexts |-> Append(mc.contexts, <<r, mc.m[r]>>)]

\* a with block that puts nothing back
ExitContextKeeps(m, history) == m

RECURSIVE ExitContext(_, _)
ExitContext(m, history) ==
    IF history = <<>> THEN m
    ELSE LET last == history[Len(history)]
         IN  ExitContext([m EXCEPT ![last[1]] = last[2]],
                         SubSeq(history, 1, Len(history) - 1))

ScfaNames == <<"acetate", "propionate", "butyrate">>

\* the dose of the row for an SCFA
DoseOf(row, name) ==
    row[CHOOSE c \in Range(DoseColumns) :
            \E k \in 1..3 : ScfaNames[k] = name /\ DoseColumns[k] = c]

RECURSIVE ApplyDosesAsSecretion(_, _, _, _)
\* the dose applied without the sign flip: rxn.bounds = (0, dose)
ApplyDosesAsSecretion(mc, resolved, row, names) ==
    IF names = <<>> THEN mc
    ELSE LET rxn  == resolved[Head(names)]
             dose == DoseOf(row, Head(names))
             next == IF rxn # None /\ dose > 0
                     THEN SetBoundsInContext(mc, rxn, <<0, dose>>)
                     ELSE mc
         IN  ApplyDosesAsSecretion(next, resolved, row, Tail(names))

RECURSIVE ApplyDoses(_, _, _, _)
\* for scfa_name, dose in [...]: if rxn and dose > 0: rxn.bounds = (-dose, 0)
ApplyDoses(mc, resolved, row, names) ==
    IF names = <<>> THEN mc
    ELSE LET rxn  == resolved[Head(names)]
             dose == DoseOf(row, Head(names))
             next == IF rxn # None /\ dose > 0
                     THEN SetBoundsInContext(mc, rxn, <<-dose, 0>>)
                     ELSE mc
         IN  ApplyDoses(next, resolved, row, Tail(names))

\* the division without its guard
PctChangeUnguarded(delta, baseline) == Div(100 * delta, baseline)

\* pct = 100 * delta / baseline_atpm if baseline_atpm else float("nan")
PctChange(delta, baseline) ==
    IF baseline # 0 THEN Div(100 * delta, baseline) ELSE NaN

\* def flux(r)
flux(sol, r) == IF r = None THEN NoValue ELSE FluxGet(sol, r, Num(0))

get_pathway_fluxes(m, sol) ==
    [rid \in Range(PATHWAYS) |->
        IF Has(m, Inner(rid)) THEN FluxGet(sol, Inner(rid), NaN) ELSE NaN]

\* float(sol.fluxes.get("EX_co2_e", 0))
Co2Flux(sol) == FluxGet(sol, EX("co2_e"), Num(0))

Result(m, sol, cond, objective, baseline, resolved, glc, o2) ==
    LET obj   == ObjectiveOrZero(sol)
        delta == obj - baseline
    IN  [condition            |-> cond,
         objective_id         |-> objective,
         objective_value      |-> Num(obj),
         baseline_objective   |-> Num(baseline),
         objective_delta      |-> Num(delta),
         objective_pct_change |-> PctChange(delta, baseline),
         glucose_flux         |-> flux(sol, glc),
         oxygen_flux          |-> flux(sol, o2),
         co2_flux             |-> Co2Flux(sol),
         acetate_flux         |-> flux(sol, resolved.acetate),
         propionate_flux      |-> flux(sol, resolved.propionate),
         butyrate_flux        |-> flux(sol, resolved.butyrate),
         pathway              |-> get_pathway_fluxes(m, sol)]

\* lines 170-195: load the model, set up the medium, set the objective,
\* resolve the SCFA, glucose and oxygen exchanges
Configure ==
    /\ pc = "load"
    /\ LET m == setup_medium(sbml, sim)
           a == find_rxn(m, ATPM_IDS)
       IN  IF a = None
           THEN /\ model' = m
                /\ pc' = "failed02"
                /\ UNCHANGED <<atpm, scfa_rxns, rxn_glc, rxn_o2>>
           ELSE /\ model' = [m EXCEPT ![a] = <<0, ObjectiveUpper>>]
                /\ atpm' = a
                /\ scfa_rxns' = [name \in DOMAIN SCFA_RXN_IDS |->
                                    find_rxn(m, SCFA_RXN_IDS[name])]
                /\ rxn_glc' = find_rxn(m, GLUCOSE_IDS)
                /\ rxn_o2' = find_rxn(m, O2_IDS)
                /\ pc' = "baseline"
    /\ UNCHANGED <<sbml, sim, model2, runs, once>>
    /\ UNCHANGED <<baseline_atpm, idx, contexts, rows, written, solves>>
    /\ UNCHANGED vvars

\* lines 197-201: the baseline solve
Baseline ==
    /\ pc = "baseline"
    /\ baseline_atpm' = ObjectiveOrZero(optimize(model, atpm))
    /\ solves' = Append(solves, "baseline")
    /\ pc' = "loop"
    /\ UNCHANGED <<atpm, scfa_rxns, rxn_glc, rxn_o2, idx, contexts, rows, written>>
    /\ UNCHANGED mvars
    /\ UNCHANGED vvars

\* the solver raises in the baseline solve: main ends with the exception
BaselineRaises ==
    /\ pc = "baseline"
    /\ solves' = Append(solves, "baseline")
    /\ pc' = "failed02"
    /\ UNCHANGED <<atpm, scfa_rxns, rxn_glc, rxn_o2, baseline_atpm, idx, contexts, rows, written>>
    /\ UNCHANGED mvars
    /\ UNCHANGED vvars

\* lines 205-217: the next row, the with block entered, its doses applied
EnterCondition ==
    /\ pc = "loop"
    /\ idx <= Len(scfa_df.table)
    /\ LET mc == ApplyDoses([m |-> model, contexts |-> <<>>], scfa_rxns,
                            scfa_df.table[idx], ScfaNames)
       IN  /\ model' = mc.m
           /\ contexts' = mc.contexts
    /\ pc' = "solve"
    /\ UNCHANGED <<sbml, sim, model2, runs, once>>
    /\ UNCHANGED <<atpm, scfa_rxns, rxn_glc, rxn_o2, baseline_atpm, idx, rows, written, solves>>
    /\ UNCHANGED vvars

\* lines 219-245: the solve, the result row, the with block left
SolveCondition ==
    /\ pc = "solve"
    /\ rows' = Append(rows, Result(model, optimize(model, atpm), scfa_df.table[idx].condition,
                                   atpm, baseline_atpm, scfa_rxns, rxn_glc, rxn_o2))
    /\ model' = ExitContext(model, contexts)
    /\ contexts' = <<>>
    /\ idx' = idx + 1
    /\ solves' = Append(solves, "condition")
    /\ pc' = "loop"
    /\ UNCHANGED <<sbml, sim, model2, runs, once>>
    /\ UNCHANGED <<atpm, scfa_rxns, rxn_glc, rxn_o2, baseline_atpm, written>>
    /\ UNCHANGED vvars

\* the solver raises inside the with block: the block is left, main ends
\* with the exception
SolveRaises ==
    /\ pc = "solve"
    /\ model' = ExitContext(model, contexts)
    /\ contexts' = <<>>
    /\ solves' = Append(solves, "condition")
    /\ pc' = "failed02"
    /\ UNCHANGED <<sbml, sim, model2, runs, once>>
    /\ UNCHANGED <<atpm, scfa_rxns, rxn_glc, rxn_o2, baseline_atpm, idx, rows, written>>
    /\ UNCHANGED vvars

\* lines 247-254: host_fluxes_by_condition.csv and merged_dose_scfa_host.csv
Save ==
    /\ pc = "loop"
    /\ idx > Len(scfa_df.table)
    /\ written' = {"host_fluxes_by_condition.csv", "merged_dose_scfa_host.csv"}
    /\ pc' = "done"
    /\ UNCHANGED <<atpm, scfa_rxns, rxn_glc, rxn_o2, baseline_atpm, idx, contexts, rows, solves>>
    /\ UNCHANGED mvars
    /\ UNCHANGED vvars

-----------------------------------------------------------------------------
(* Inputs of a run of stage 02 *)

RunDoseTriples == { <<200, 0, 100>>, <<0, 300, 0>>, <<-100, 0, 0>> }

RunTables ==
    UNION { { [k \in 1..n |-> Row(cc[k], dd[k])] :
                cc \in [1..n -> {PyStr("High"), PyStr("Low")}],
                dd \in [1..n -> RunDoseTriples] } :
            n \in 1..MaxRows }

\* whatever is at results/scfa_inputs_canonical.csv when stage 02 starts
RunFiles ==
    { to_csv(c, t) : c \in {needed, needed \ {"butyrate_mmol_gDW_hr"}}, t \in RunTables }

RunExpected == { <<PyStr("High"), PyStr("Low")>>, <<PyStr("High")>> }

RunAbsent ==
    { {}, {EX("glc__D_e")}, {EX("co2_e"), Inner("PYK")}, {Inner("ATPM"), EX("o2_e")},
      {Inner("ATPM"), <<"DM_", "atp_c_">>}, {EX("ac_e"), EX("but_e"), EX("btn_e")},
      Range(GLUCOSE_IDS) \cup Range(O2_IDS) }

RunSbmlFiles ==
    { [r \in Universe \ a |-> IF IsBoundary(r) THEN b[1] ELSE b[2]] :
        a \in RunAbsent,
        b \in { << <<-100000, 100000>>, <<-100000, 100000>> >>,
                << <<0, 100000>>, <<-100000, -60000>> >> } }

InitStage02 ==
    /\ pc = "stage02"
    /\ cols = needed /\ df = <<>> /\ res01 = NotRun
    /\ canonical \in RunFiles
    /\ expected \in RunExpected
    /\ scfa_df = NotRun
    /\ sbml \in RunSbmlFiles
    /\ sim \in SimChoices
    /\ model = <<>> /\ model2 = <<>> /\ runs = <<0, 0>> /\ once = <<>>
    /\ InitRun

Next ==
    \/ ReadInputs
    \/ Configure
    \/ Baseline
    \/ BaselineRaises
    \/ EnterCondition
    \/ SolveCondition
    \/ SolveRaises
    \/ Save

Spec == InitStage02 /\ [][Next]_vars

-----------------------------------------------------------------------------
InitValidate ==
    /\ pc = "stage01"
    /\ cols \in ColumnChoices
    /\ df \in Tables
    /\ expected \in ExpectedChoices
    /\ res01 = NotRun
    /\ canonical = NoFile
    /\ scfa_df = NotRun
    /\ sbml = <<>> /\ sim = <<>> /\ model = <<>> /\ model2 = <<>>
    /\ runs = <<0, 0>> /\ once = <<>>
    /\ InitRun

NextValidate == Stage01 \/ ReadInputs

SpecValidate == InitValidate /\ [][NextValidate]_vars

-----------------------------------------------------------------------------
(* Properties *)

\* the model main solves the baseline with: the medium set up on the loaded
\* network and the objective opened
ConfiguredModel ==
    LET m == setup_medium(sbml, sim)
    IN  [m EXCEPT ![find_rxn(m, ATPM_IDS)] = <<0, ObjectiveUpper>>]

\* the bounds a row of the dose table is to be solved with: the configured
\* model with the resolved exchange of every SCFA the row doses opened for
\* uptake of the dose
OwnBounds(row) ==
    [r \in DOMAIN ConfiguredModel |->
        IF \E k \in 1..3 : scfa_rxns[ScfaNames[k]] = r /\ row[DoseColumns[k]] > 0
        THEN LET k == CHOOSE k \in 1..3 :
                        scfa_rxns[ScfaNames[k]] = r /\ row[DoseColumns[k]] > 0
             IN  <<-row[DoseColumns[k]], 0>>
        ELSE ConfiguredModel[r]]

Configured == pc \in {"baseline", "loop", "solve", "done"} \/ (pc = "failed02" /\ atpm # None)

\* C1: condition isolation.  When a condition is solved the bounds are the
\* configured baseline with only that condition's own SCFA bounds changed;
\* once its with block is left, normally or by an exception of the solver,
\* every bound is back at the baseline; so every result row is the result
\* of its own row's doses alone, whatever rows came before it.
C1_ConditionIsolation ==
    Configured =>
        /\ pc = "solve" => model = OwnBounds(scfa_df.table[idx])
        /\ pc # "solve" => model = ConfiguredModel /\ contexts = <<>>
        /\ \A k \in DOMAIN rows :
              LET own == OwnBounds(scfa_df.table[k])
              IN  rows[k] = Result(own, optimize(own, atpm), scfa_df.table[k].condition,
                                   atpm, baseline_atpm, scfa_rxns, rxn_glc, rxn_o2)

\* a second condition is being solved after a first that opened acetate,
\* which the second does not dose
C1_Witness ==
    /\ pc = "solve" /\ idx = 2 /\ Len(rows) = 1
    /\ scfa_rxns.acetate # None
    /\ scfa_df.table[1].acetate_mmol_gDW_hr > 0
    /\ scfa_df.table[2].acetate_mmol_gDW_hr = 0
    /\ scfa_df.table[2].propionate_mmol_gDW_hr > 0

TextNames(t) == {t[k].condition.s : k \in DOMAIN t}
ExpectedNames == {expected[k].s : k \in DOMAIN expected}

Stage01Ran == pc \in {"stage02", "failed01", "load", "failed02"} /\ res01 # NotRun

\* C2 as stated: whenever the table's condition names differ from the
\* expected names, read_scfa_inputs fails with the error that reports the
\* expected and the received set.
C2_Original ==
    (Stage01Ran /\ "condition" \in cols /\ TextNames(df) # ExpectedNames) =>
        /\ res01.status = "ValueError"
        /\ res01.error = "Conditions don't match"
        /\ Range(res01.exp) = Range(expected)
        /\ Range(res01.got) = {PyStr(n) : n \in TextNames(df)}

\* C2, amended: a table with all four required columns whose condition
\* names differ from the expected names is rejected with the error that
\* reports the expected conditions and the received names, each sorted; a
\* table with a column missing is rejected too, whatever its names.
C2_MismatchReported ==
    (Stage01Ran /\ "condition" \in cols /\ TextNames(df) # ExpectedNames) =>
        /\ res01.status = "ValueError"
        /\ res01.table = NoTable
        /\ canonical = NoFile
        /\ needed \subseteq cols =>
              /\ res01.error = "Conditions don't match"
              /\ res01.exp = SortedSeq(expected)
              /\ res01.got = SortedList({PyStr(n) : n \in TextNames(df)})
        /\ ~(needed \subseteq cols) =>
              /\ res01.error = "Missing columns"
              /\ res01.missing = needed \ cols

\* a complete table naming a condition more than the expected ones was
\* rejected with both sets reported
C2_Witness ==
    /\ Stage01Ran /\ needed \subseteq cols
    /\ ExpectedNames \subseteq TextNames(df) /\ TextNames(df) # ExpectedNames
    /\ res01.error = "Conditions don't match"
    /\ Len(res01.got) = 2 /\ Len(res01.exp) = 1

HasNegative(c) == c \in cols /\ \E k \in DOMAIN df : df[k][c] < 0

\* C3 as stated: a negative value in a dose column makes read_scfa_inputs
\* fail with the error naming that column.
C3_Original ==
    Stage01Ran =>
        \A c \in Range(DoseColumns) :
            HasNegative(c) =>
                /\ res01.status = "ValueError"
                /\ res01.error = "Negative values in"
                /\ res01.column = c

\* C3, amended: a negative value in a dose column makes read_scfa_inputs
\* fail and return no table; when the four required columns are present and
\* the condition set matches, the error is the negative-value error and it
\* names the first dose column, in the order acetate, propionate, butyrate,
\* that holds a negative value.
C3_NegativeRejected ==
    (Stage01Ran /\ \E c \in Range(DoseColumns) : HasNegative(c)) =>
        /\ res01.status = "ValueError"
        /\ res01.table = NoTable
        /\ canonical = NoFile
        /\ (needed \subseteq cols
            /\ {AsTypeStr(df[k].condition) : k \in DOMAIN df} = Range(expected)) =>
              /\ res01.error = "Negative values in"
              /\ \E k \in 1..3 :
                    /\ res01.column = DoseColumns[k]
                    /\ HasNegative(DoseColumns[k])
                    /\ \A j \in 1..(k - 1) : ~HasNegative(DoseColumns[j])

\* a table with the expected conditions and a negative butyrate dose in only
\* one of its two rows was rejected naming the propionate column, the first
\* with a negative value
C3_Witness ==
    /\ Stage01Ran /\ Len(df) = 2
    /\ res01.error = "Negative values in"
    /\ res01.column = "propionate_mmol_gDW_hr"
    /\ HasNegative("butyrate_mmol_gDW_hr")
    /\ \E k \in DOMAIN df : df[k].butyrate_mmol_gDW_hr >= 0

OneRowEach(names, exp) ==
    /\ Range(names) = Range(exp)
    /\ \A a, b \in DOMAIN names : names[a] = names[b] => a = b

\* C4: the accepted dose table, and the result table built from it, hold
\* exactly one row for each expected condition: none missing, none twice.
C4_OneRowPerCondition ==
    /\ scfa_df.status = "ok" =>
          OneRowEach([k \in DOMAIN scfa_df.table |-> scfa_df.table[k].condition], expected)
    /\ pc = "done" =>
          OneRowEach([k \in DOMAIN rows |-> rows[k].condition], expected)

\* C5: the table read_scfa_inputs accepts comes out sorted by condition, and
\* validating that output again succeeds and returns the identical table.
C5_ValidationIdempotent ==
    /\ res01.status = "ok" => IsSortedByCondition(res01.table)
    /\ (res01.status = "ok" /\ scfa_df # NotRun) =>
          /\ scfa_df.status = "ok"
          /\ scfa_df.table = res01.table

\* C6: setup_medium is deterministic and idempotent: run on a model and on
\* an independent copy of it, it leaves the same bounds on both; run a
\* second time on the configured model, it changes no bound.
C6_MediumDeterministicIdempotent ==
    /\ (runs[1] >= 1 /\ runs[2] = 1) => model2 = once
    /\ runs[1] = 2 => model = once

\* setup_medium ran twice on a model it changed, and once on the copy
C6_Witness ==
    /\ runs = <<2, 1>>
    /\ \E r \in DOMAIN sbml : ~IsBoundary(r) /\ once[r] # sbml[r]
    /\ \E r \in DOMAIN sbml : IsBoundary(r) /\ once[r] # sbml[r]

\* C7: at solve time, the resolved exchange of an SCFA dosed above 0 has the
\* bounds (-dose, 0); that of an SCFA dosed 0 was not touched by the dose
\* step and has the bounds the medium left it, (0, 0).
C7_DoseApplication ==
    pc = "solve" =>
        \A k \in 1..3 :
            LET rxn  == scfa_rxns[ScfaNames[k]]
                dose == scfa_df.table[idx][DoseColumns[k]]
            IN  rxn # None =>
                  /\ dose > 0 => model[rxn] = <<-dose, 0>>
                  /\ dose = 0 =>
                        /\ model[rxn] = setup_medium(sbml, sim)[rxn]
                        /\ model[rxn] = <<0, 0>>
                        /\ \A h \in DOMAIN contexts : contexts[h][1] # rxn

\* a condition with a dosed and an undosed SCFA, both resolved, is solved
C7_Witness ==
    /\ pc = "solve"
    /\ scfa_rxns.acetate # None /\ scfa_rxns.propionate # None
    /\ scfa_df.table[idx].acetate_mmol_gDW_hr > 0
    /\ scfa_df.table[idx].propionate_mmol_gDW_hr = 0
    /\ sbml[scfa_rxns.propionate] # <<0, 0>>

Missing(v) == v = NaN \/ v = NoValue

\* C8: a panel entry whose reaction is absent from the network is recorded
\* as the missing-value marker in every result row.
C8_AbsentPanelEntryIsMissing ==
    \A k \in DOMAIN rows :
        /\ find_rxn(model, GLUCOSE_IDS) = None => Missing(rows[k].glucose_flux)
        /\ find_rxn(model, O2_IDS) = None => Missing(rows[k].oxygen_flux)
        /\ ~Has(model, EX("co2_e")) => Missing(rows[k].co2_flux)
        /\ find_rxn(model, SCFA_RXN_IDS.acetate) = None => Missing(rows[k].acetate_flux)
        /\ find_rxn(model, SCFA_RXN_IDS.propionate) = None => Missing(rows[k].propionate_flux)
        /\ find_rxn(model, SCFA_RXN_IDS.butyrate) = None => Missing(rows[k].butyrate_flux)
        /\ \A rid \in Range(PATHWAYS) :
              ~Has(model, Inner(rid)) => Missing(rows[k].pathway[rid])

\* C9: with a baseline objective of 0 every row's percent change is NaN and
\* nothing was divided by zero; with any other baseline it is
\* 100 * (objective - baseline) / baseline, and the delta is objective -
\* baseline.
C9_PercentChange ==
    \A k \in DOMAIN rows :
        LET row == rows[k]
            obj == row.objective_value.n
        IN  /\ row.baseline_objective = Num(baseline_atpm)
            /\ row.objective_pct_change.d # 0
            /\ baseline_atpm = 0 => row.objective_pct_change = NaN
            /\ baseline_atpm # 0 =>
                  /\ row.objective_pct_change = Div(100 * (obj - baseline_atpm), baseline_atpm)
                  /\ row.objective_delta = Num(obj - baseline_atpm)

\* a row with an objective above 0 was recorded against a baseline of 0
C9_Witness ==
    /\ baseline_atpm = 0
    /\ rows # <<>>
    /\ rows[1].objective_value.n > 0
    /\ rows[1].objective_pct_change = NaN

FirstPresent(m, candidates, r) ==
    \E k \in DOMAIN candidates :
        /\ candidates[k] = r
        /\ \A j \in 1..(k - 1) : candidates[j] \notin DOMAIN m

\* C10: after setup_medium every boundary reaction outside the curated
\* medium is closed, every present reaction of the curated medium has the
\* bounds of its list, only the first present oxygen and glucose candidates
\* are opened, and no reaction is added or dropped.
C10_MediumBounds ==
    runs[1] >= 1 =>
        /\ DOMAIN model = DOMAIN sbml
        /\ \A r \in DOMAIN model :
              IsBoundary(r) =>
                model[r] =
                  IF r \in {EX("h2o_e"), EX("h_e")} THEN <<-100000, 100000>>
                  ELSE IF r \in Range(IonIds) THEN <<-1000, 10000>>
                  ELSE IF r = EX("co2_e") THEN <<0, 100000>>
                  ELSE IF r = EX("nh4_e") THEN <<-50, 10000>>
                  ELSE IF FirstPresent(model, O2_IDS, r) THEN <<-sim.oxygen_uptake, 0>>
                  ELSE IF FirstPresent(model, GLUCOSE_IDS, r) THEN <<-sim.glucose_uptake, 0>>
                  ELSE IF r \in Range(ESSENTIAL_AA)
                       THEN <<-(IF "amino_acid_uptake" \in DOMAIN sim
                                THEN sim.amino_acid_uptake ELSE 1), 0>>
                  ELSE IF r \in Range(VITAMINS)
                       THEN <<-(IF "vitamin_uptake" \in DOMAIN sim
                                THEN sim.vitamin_uptake ELSE 1), 0>>
                  ELSE <<0, 0>>

\* setup_medium ran on a network that lacks the first glucose candidate and
\* an ion, holds the second glucose candidate and both oxygen candidates,
\* and whose boundary reactions were open
C10_Witness ==
    /\ runs[1] >= 1
    /\ EX("glc__D_e") \notin DOMAIN model /\ EX("pi_e") \notin DOMAIN model
    /\ model[EX("glc_D_e")] = <<-sim.glucose_uptake, 0>>
    /\ sim.glucose_uptake > 0
    /\ model[EX("o2[e]")] = <<0, 0>>
    /\ sbml[<<"SK_", "pre_prot_r">>] # <<0, 0>>

\* the dose file stage 02 reads lacks a required column, names a set of
\* conditions other than the expected one, or holds a negative dose
DoseInputInvalid ==
    \/ ~(needed \subseteq canonical.columns)
    \/ {canonical.rows[k].condition : k \in DOMAIN canonical.rows} # ExpectedNames
    \/ \E k \in DOMAIN canonical.rows, c \in Range(DoseColumns) : canonical.rows[k][c] < 0

\* the network holds none of the objective candidates
NoObjective == \A k \in DOMAIN ATPM_IDS : ATPM_IDS[k] \notin DOMAIN sbml

\* main ended with an error without having called model.optimize(), collected
\* a result row or written a result file
AbortedBeforeAnySolve ==
    /\ pc = "failed02"
    /\ solves = <<>>
    /\ rows = <<>>
    /\ written = {}

\* C11: fatal errors precede any solve in stage 2.  Once main has read a
\* dose input that fails validation, and once it has looked for the
\* objective in a network holding none of its candidates, it has ended with
\* an error with no solve made and no result file written; in every run the
\* first solve is the baseline solve and every later one a condition solve,
\* a condition is entered and a file written only after the baseline solve.
C11_FatalBeforeSolve ==
    /\ (pc # "stage02" /\ DoseInputInvalid) =>
          /\ scfa_df.status = "ValueError"
          /\ model = <<>>
          /\ AbortedBeforeAnySolve
    /\ (pc \notin {"stage02", "load"} /\ NoObjective) =>
          /\ atpm = None
          /\ AbortedBeforeAnySolve
    /\ \A k \in DOMAIN solves :
          solves[k] = IF k = 1 THEN "baseline" ELSE "condition"
    /\ pc \in {"loop", "solve", "done"} => solves # <<>>
    /\ Len(rows) < Len(solves) \/ solves = <<>>
    /\ written # {} => (pc = "done" /\ solves # <<>>)

\* main ended at a dose input holding a negative dose, with all its columns
\* and the expected conditions, for a network that holds an objective
\* candidate: nothing was loaded, solved or written
C11_Witness ==
    /\ pc = "failed02"
    /\ scfa_df.error = "Negative values in"
    /\ ~NoObjective
    /\ solves = <<>> /\ written = {}

=============================================================================
